---- MODULE Spec2Model ----
(***************************************************************************)
(* Poker seating server (src/server.js): the games table, the player_stats *)
(* table and the request handlers that read and write them.                *)
(*                                                                         *)
(* Spec      : requests are served one at a time, each handler is one step *)
(* SpecAsync : POST /api/generate runs step by step, one step per awaited  *)
(*             database call, so that two requests interleave              *)
(***************************************************************************)
EXTENDS Integers, Sequences, FiniteSets, TLC

VARIABLES
  games,         \* table games: id -> row
  lastId,        \* sqlite_sequence of games (AUTOINCREMENT), last id handed out
  player_stats,  \* table player_stats: player -> row
  resp,          \* the response of the request that finished in the last step
  reqs,          \* POST /api/generate requests in flight (SpecAsync)
  issued         \* history: the seatings returned by successful generate calls

vars == <<games, lastId, player_stats, resp, reqs, issued>>

(***************************************************************************)
(* Bounds of the model and constants of the program                        *)
(***************************************************************************)
MaxGames == 2        \* games ever created
MaxWins == 2         \* results are recorded while the wins of all rows sum to less
MaxAttempts == 50    \* while (attempts < 50)

None == "null"            \* JS null / undefined / "" : a falsy placement value
Undefined == "undefined"  \* a field absent from a PATCH body

\* request inputs: req.body.players (an array or not) and req.body.buyIn
Array(items) == [isArray |-> TRUE, items |-> items]
NotArray == [isArray |-> FALSE, items |-> <<>>]
Num(n) == [isNumber |-> TRUE, n |-> n]
NotNumber == [isNumber |-> FALSE, n |-> 0]     \* absent, or Number(x) is NaN

Rosters == {NotArray, Array(<<"A">>), Array(<<"A", "B">>)}
BuyInInputs == {Num(50)}
GameIdInputs == 0 .. MaxGames            \* 0: a missing (falsy) gameId
FirstInputs == {None, "A", "C"}
SecondInputs == {"B", "C"}
ThirdInputs == {None, "C"}
PatchWinners == {Undefined, None, "A", "C"}
PatchSeconds == {None, "B"}
PatchThirds == {Undefined, "C"}

(***************************************************************************)
(* Utilities                                                               *)
(***************************************************************************)
Swap(arr, i, j) == [arr EXCEPT ![i] = arr[j], ![j] = arr[i]]

\* shuffle(arr): Fisher-Yates from the last index down, j drawn from 0..i.
\* The set of arrays the loop can end with, Math.random() being any draw.
RECURSIVE shuffleFrom(_, _)
shuffleFrom(arr, i) ==
  IF i <= 1 THEN {arr}
  ELSE UNION { shuffleFrom(Swap(arr, i, j), i - 1) : j \in 1..i }

shuffle(arr) == shuffleFrom(arr, Len(arr))

\* shuffle(players): the loop run on the array of the caller itself
ShuffleCopy_InPlace(players) ==
  {[players |-> s, seating |-> s] : s \in shuffle(players)}

\* const seating = shuffle([...players]): the loop runs on a copy; the array
\* of the caller after the call, and the seating returned
ShuffleCopy(players) ==
  {[players |-> players, seating |-> s] : s \in shuffle(players)}

\* JSON.stringify of an array of strings: [ "a" , "b" ] as a token sequence
RECURSIVE JSONitems(_)
JSONitems(seating) ==
  IF seating = <<>> THEN <<>>
  ELSE IF Len(seating) = 1 THEN <<"\"", Head(seating), "\"">>
  ELSE <<"\"", Head(seating), "\"", ",">> \o JSONitems(Tail(seating))

JSONstringify(seating) == <<"[">> \o JSONitems(seating) \o <<"]">>

\* JSON.parse of a stored players column: the strings between the quotes
RECURSIVE JSONparseItems(_)
JSONparseItems(toks) ==
  IF toks = <<>> \/ Head(toks) = "]" THEN <<>>
  ELSE IF Head(toks) = "," THEN JSONparseItems(Tail(toks))
  ELSE <<toks[2]>> \o JSONparseItems(SubSeq(toks, 4, Len(toks)))

JSONparse(text) == JSONparseItems(Tail(text))

\* sha256(...).digest("hex"): a digest, taken collision-free on the model's inputs
sha256(message) == <<"sha256", message>>

hashSeating(seating) == sha256(JSONstringify(seating))

\* Number(req.body.buyIn) || 0
ParseBuyIn(raw) == IF raw.isNumber THEN raw.n ELSE 0

\* payouts that split the pot between first and second
describePayouts_Split(playerCount, buyIn) ==
  LET totalPot == playerCount * buyIn
  IN IF totalPot = 0
     THEN [first |-> 0, second |-> 0, third |-> 0]
     ELSE [first |-> totalPot - buyIn, second |-> buyIn, third |-> 0,
           totalPot |-> totalPot]

describePayouts(playerCount, buyIn) ==
  LET totalPot == playerCount * buyIn
  IN IF totalPot = 0
     THEN [first |-> 0, second |-> 0, third |-> 0]
     ELSE [first |-> totalPot, second |-> 0, third |-> 0, totalPot |-> totalPot]

(***************************************************************************)
(* player_stats                                                            *)
(***************************************************************************)
\* the insert replacing a stored row instead of updating it
UpsertPlayer_Replace(stats, player, buyIn) ==
  [p \in DOMAIN stats \cup {player} |->
     IF p = player
     THEN [games_played |-> 1, wins |-> 0, top3 |-> 0, total_buyins |-> buyIn,
           total_winnings |-> 0, net_profit |-> 0 - buyIn]
     ELSE stats[p]]

\* INSERT ... ON CONFLICT(player) DO UPDATE of updatePlayerStats, one player
UpsertPlayer(stats, player, buyIn) ==
  IF player \in DOMAIN stats
  THEN [stats EXCEPT ![player].games_played = @ + 1,
                     ![player].total_buyins = @ + buyIn,
                     ![player].net_profit = @ - buyIn]
  ELSE (player :> [games_played |-> 1, wins |-> 0, top3 |-> 0,
                   total_buyins |-> buyIn, total_winnings |-> 0,
                   net_profit |-> 0 - buyIn]) @@ stats

RECURSIVE updatePlayerStats(_, _, _)
updatePlayerStats(stats, players, buyIn) ==
  IF players = <<>> THEN stats
  ELSE updatePlayerStats(UpsertPlayer(stats, Head(players), buyIn), Tail(players), buyIn)

ZeroStat == [games |-> 0, wins |-> 0, top3 |-> 0, buyins |-> 0, winnings |-> 0]

\* players.forEach(player => ...) of recalculateStats, for one game
RECURSIVE CountPlayers(_, _, _)
CountPlayers(stats, game, players) ==
  IF players = <<>> THEN stats
  ELSE LET player == Head(players)
           s0 == IF player \in DOMAIN stats THEN stats ELSE (player :> ZeroStat) @@ stats
           s1 == [s0 EXCEPT ![player].games = @ + 1,
                            ![player].buyins = @ + game.buy_in]
           s2 == IF game.winner = player
                 THEN [s1 EXCEPT ![player].wins = @ + 1, ![player].top3 = @ + 1]
                 ELSE IF game.second_place = player \/ game.third_place = player
                      THEN [s1 EXCEPT ![player].top3 = @ + 1]
                      ELSE s1
       IN CountPlayers(s2, game, Tail(players))

AddWinnings(stats, player, amount) ==
  IF player # None /\ player \in DOMAIN stats
  THEN [stats EXCEPT ![player].winnings = @ + amount]
  ELSE stats

\* the body with the second place paid its buy-in back out of the pot
CountGame_SecondPaid(stats, game) ==
  LET players == JSONparse(game.players)
      s == CountPlayers(stats, game, players)
      payouts == describePayouts(Len(players), game.buy_in)
  IN IF game.buy_in > 0 /\ game.winner # None
     THEN AddWinnings(AddWinnings(s, game.winner, payouts.first - game.buy_in),
                      game.second_place, game.buy_in)
     ELSE s

\* the body of games.forEach(game => ...) of recalculateStats
CountGame(stats, game) ==
  LET players == JSONparse(game.players)
      s == CountPlayers(stats, game, players)
      payouts == describePayouts(Len(players), game.buy_in)
  IN IF game.buy_in > 0 /\ game.winner # None
     THEN AddWinnings(AddWinnings(AddWinnings(s, game.winner, payouts.first),
                                  game.second_place, payouts.second),
                      game.third_place, payouts.third)
     ELSE s

RECURSIVE CountGames(_, _, _)
CountGames(stats, g, ids) ==
  IF ids = {} THEN stats
  ELSE LET id == CHOOSE i \in ids : \A k \in ids : i <= k
       IN CountGames(CountGame(stats, g[id]), g, ids \ {id})

\* the recalculation starting from the stored rows
DeleteStats_KeepRows(table) == table

\* DELETE FROM player_stats
DeleteStats(table) == [p \in {} |-> table[p]]

\* the row inserted with the winnings as net_profit
StatRow_NetIsWinnings(stat) ==
  [games_played |-> stat.games, wins |-> stat.wins, top3 |-> stat.top3,
   total_buyins |-> stat.buyins, total_winnings |-> stat.winnings,
   net_profit |-> stat.winnings]

\* the row inserted for one entry of stats
StatRow(stat) ==
  [games_played |-> stat.games, wins |-> stat.wins, top3 |-> stat.top3,
   total_buyins |-> stat.buyins, total_winnings |-> stat.winnings,
   net_profit |-> stat.winnings - stat.buyins]

\* INSERT INTO player_stats (...) VALUES (...), one per entry of stats; player is
\* the primary key, an insert on a stored player fails and leaves the row
InsertStats(table, stats) ==
  [p \in DOMAIN table \cup DOMAIN stats |->
     IF p \in DOMAIN table THEN table[p] ELSE StatRow(stats[p])]

\* a recalculation that keeps the stored rows and adds the counts to them
recalculateStats_NoReset(table, g) ==
  LET stats == CountGames(<<>>, g, DOMAIN g)
  IN [p \in DOMAIN table \cup DOMAIN stats |->
        IF p \notin DOMAIN stats THEN table[p]
        ELSE IF p \notin DOMAIN table THEN StatRow(stats[p])
        ELSE [games_played |-> table[p].games_played + stats[p].games,
              wins |-> table[p].wins + stats[p].wins,
              top3 |-> table[p].top3 + stats[p].top3,
              total_buyins |-> table[p].total_buyins + stats[p].buyins,
              total_winnings |-> table[p].total_winnings + stats[p].winnings,
              net_profit |-> table[p].net_profit + stats[p].winnings - stats[p].buyins]]

\* recalculateStats: DELETE FROM player_stats, count every game, insert the rows
recalculateStats(table, g) ==
  InsertStats(DeleteStats(table), CountGames(<<>>, g, DOMAIN g))

(***************************************************************************)
(* games: the statements the handlers run                                  *)
(***************************************************************************)
\* the active-game check finding no row whatever is stored
HasActive_NoRow(g) == FALSE

\* SELECT 1 FROM games WHERE winner IS NULL
HasActive(g) == \E id \in DOMAIN g : g[id].winner = None

\* SELECT 1 FROM games WHERE seating_hash = ?
HashExists(g, hash) == \E id \in DOMAIN g : g[id].seating_hash = hash

\* the insert leaving buy_in to its column default
NewGame_DefaultBuyIn(seating, hash, buyIn) ==
  [players |-> JSONstringify(seating), seating_hash |-> hash, buy_in |-> 0,
   winner |-> None, second_place |-> None, third_place |-> None]

\* INSERT INTO games (players, seating_hash, buy_in) VALUES (?, ?, ?)
NewGame(seating, hash, buyIn) ==
  [players |-> JSONstringify(seating), seating_hash |-> hash, buy_in |-> buyIn,
   winner |-> None, second_place |-> None, third_place |-> None]

\* seating_hash without its UNIQUE index
InsertAllowed_NoIndex(g, hash) == TRUE

\* seating_hash TEXT UNIQUE NOT NULL: the insert is refused on a stored hash
InsertAllowed(g, hash) == ~HashExists(g, hash)

\* id INTEGER PRIMARY KEY without AUTOINCREMENT: one more than the largest
\* id stored
NextId_Rowid(g, seq) ==
  IF DOMAIN g = {} THEN 1
  ELSE 1 + CHOOSE id \in DOMAIN g : \A k \in DOMAIN g : k <= id

\* id INTEGER PRIMARY KEY AUTOINCREMENT: one more than the largest id the
\* table ever held (sqlite_sequence), which is this.lastID of the insert
NextId(g, seq) == seq + 1

InsertGame(g, id, seating, hash, buyIn) == (id :> NewGame(seating, hash, buyIn)) @@ g

\* players.includes(x)
Includes(players, x) == \E i \in 1..Len(players) : players[i] = x

ActiveIds(g) == {id \in DOMAIN g : g[id].winner = None}

(***************************************************************************)
(* Responses                                                               *)
(***************************************************************************)
Response(op, status, error) ==
  [op |-> op, status |-> status, error |-> error, seating |-> <<>>, gameId |-> 0]

GenerateOk(seating, gameId) ==
  [op |-> "generate", status |-> 200, error |-> "", seating |-> seating, gameId |-> gameId]

NoResponse == Response("", 0, "")

(***************************************************************************)
(* POST /api/generate                                                      *)
(***************************************************************************)
\* a loop whose condition is false on entry: no attempt is made
GenerateLoop_NoAttempt(candidates, fresh, attempts) == {<<>>}

\* while (attempts < 50): the outcomes of the loop entered with `attempts`
\* tries used, the store not changing while it runs. Each try draws one of
\* `candidates`; a draw in `fresh` (its hash is not stored) ends the loop with
\* that seating, any other draw goes round again; <<>> when the loop runs out
RECURSIVE GenerateLoop(_, _, _)
GenerateLoop(candidates, fresh, attempts) ==
  IF attempts >= MaxAttempts THEN {<<>>}
  ELSE fresh \cup (IF fresh # candidates
                   THEN GenerateLoop(candidates, fresh, attempts + 1)
                   ELSE {})

\* const seating = shuffle([...players]); exists = SELECT 1 ... WHERE seating_hash = ?
FreshSeatings(players, g) == {s \in shuffle(players) : ~HashExists(g, hashSeating(s))}

ConflictMessage == "A game is already in progress! Finish it first."
ExhaustedMessage == "Could not generate unique seating after 50 attempts"

\* Array.isArray(players) && players.length >= 2
ValidPlayers(body) == body.players.isArray /\ Len(body.players.items) >= 2

GenerateInvalid(body) ==
  /\ ~ValidPlayers(body)
  /\ resp' = Response("generate", 400, "Invalid players list")
  /\ UNCHANGED <<games, lastId, player_stats, reqs, issued>>

GenerateConflict(body) ==
  /\ ValidPlayers(body)
  /\ HasActive(games)
  /\ resp' = Response("generate", 409, ConflictMessage)
  /\ UNCHANGED <<games, lastId, player_stats, reqs, issued>>

GenerateRun(body) ==
  /\ ValidPlayers(body)
  /\ ~HasActive(games)
  /\ \E seating \in GenerateLoop(shuffle(body.players.items),
                                  FreshSeatings(body.players.items, games), 0) :
       IF seating = <<>>
       THEN /\ resp' = Response("generate", 409, ExhaustedMessage)
            /\ UNCHANGED <<games, lastId, player_stats, reqs, issued>>
       ELSE LET buyIn == ParseBuyIn(body.buyIn)
                hash == hashSeating(seating)
            IN /\ lastId < MaxGames
               /\ InsertAllowed(games, hash)
               /\ games' = InsertGame(games, NextId(games, lastId), seating, hash, buyIn)
               /\ lastId' = NextId(games, lastId)
               /\ player_stats' = updatePlayerStats(player_stats, seating, buyIn)
               /\ resp' = GenerateOk(seating, NextId(games, lastId))
               /\ issued' = issued \cup {seating}
               /\ UNCHANGED reqs

Generate(body) == GenerateInvalid(body) \/ GenerateConflict(body) \/ GenerateRun(body)

(***************************************************************************)
(* POST /api/results                                                       *)
(***************************************************************************)
\* the update binding first to second_place and leaving winner unset
SetPlacements_WinnerUnset(g, id, first, second, third) ==
  [g EXCEPT ![id].second_place = first, ![id].third_place = third]

\* UPDATE games SET winner = ?, second_place = ?, third_place = ? WHERE id = ?
SetPlacements(g, id, first, second, third) ==
  [g EXCEPT ![id].winner = first, ![id].second_place = second, ![id].third_place = third]

\* the winner's update without wins = wins + 1
AddWin_Top3Only(stats, player) ==
  IF player \in DOMAIN stats
  THEN [stats EXCEPT ![player].top3 = @ + 1]
  ELSE stats

\* UPDATE player_stats SET wins = wins + 1, top3 = top3 + 1 WHERE player = ?
AddWin(stats, player) ==
  IF player \in DOMAIN stats
  THEN [stats EXCEPT ![player].wins = @ + 1, ![player].top3 = @ + 1]
  ELSE stats

\* the updates for second and third left out
AddTop3_Skipped(stats, player) == stats

\* UPDATE player_stats SET top3 = top3 + 1 WHERE player = ?
AddTop3(stats, player) ==
  IF player # None /\ player \in DOMAIN stats
  THEN [stats EXCEPT ![player].top3 = @ + 1]
  ELSE stats

\* the statistics updates with the pot paid to the winner at once
ApplyResults_PaysWinner(stats, first, second, third) ==
  LET counted == AddTop3(AddTop3(AddWin(stats, first), second), third)
  IN IF first \in DOMAIN counted
     THEN [counted EXCEPT ![first].total_winnings = @ + 100,
                          ![first].net_profit = @ + 100]
     ELSE counted

\* the three statistics updates that follow the game update
ApplyResults(stats, first, second, third) ==
  AddTop3(AddTop3(AddWin(stats, first), second), third)

\* the checks without the membership test of first
ResultsError_FirstUnchecked(g, body) ==
  IF body.gameId = 0 \/ body.first = None
  THEN [status |-> 400, error |-> "Missing gameId or first place winner"]
  ELSE IF body.gameId \notin DOMAIN g
  THEN [status |-> 404, error |-> "Game not found"]
  ELSE LET players == JSONparse(g[body.gameId].players)
       IN IF body.second # None /\ ~Includes(players, body.second)
          THEN [status |-> 400, error |-> "Second place not in game"]
          ELSE IF body.third # None /\ ~Includes(players, body.third)
          THEN [status |-> 400, error |-> "Third place not in game"]
          ELSE [status |-> 200, error |-> ""]

\* the checks without the membership tests of second and third
ResultsError_FirstOnly(g, body) ==
  IF body.gameId = 0 \/ body.first = None
  THEN [status |-> 400, error |-> "Missing gameId or first place winner"]
  ELSE IF body.gameId \notin DOMAIN g
  THEN [status |-> 404, error |-> "Game not found"]
  ELSE LET players == JSONparse(g[body.gameId].players)
       IN IF ~Includes(players, body.first)
          THEN [status |-> 400, error |-> "First place not in game"]
          ELSE [status |-> 200, error |-> ""]

\* the checks answering a missing game as a bad request
ResultsError_MissingGame400(g, body) ==
  IF body.gameId = 0 \/ body.first = None \/ body.gameId \notin DOMAIN g
  THEN [status |-> 400, error |-> "Missing gameId or first place winner"]
  ELSE LET players == JSONparse(g[body.gameId].players)
       IN IF ~Includes(players, body.first)
          THEN [status |-> 400, error |-> "First place not in game"]
          ELSE IF body.second # None /\ ~Includes(players, body.second)
          THEN [status |-> 400, error |-> "Second place not in game"]
          ELSE IF body.third # None /\ ~Includes(players, body.third)
          THEN [status |-> 400, error |-> "Third place not in game"]
          ELSE [status |-> 200, error |-> ""]

\* the checks with a guard against results recorded twice
ResultsError_OncePerGame(g, body) ==
  IF body.gameId = 0 \/ body.first = None
  THEN [status |-> 400, error |-> "Missing gameId or first place winner"]
  ELSE IF body.gameId \notin DOMAIN g
  THEN [status |-> 404, error |-> "Game not found"]
  ELSE LET players == JSONparse(g[body.gameId].players)
       IN IF g[body.gameId].winner # None
          THEN [status |-> 409, error |-> "Results already recorded"]
          ELSE IF ~Includes(players, body.first)
          THEN [status |-> 400, error |-> "First place not in game"]
          ELSE IF body.second # None /\ ~Includes(players, body.second)
          THEN [status |-> 400, error |-> "Second place not in game"]
          ELSE IF body.third # None /\ ~Includes(players, body.third)
          THEN [status |-> 400, error |-> "Third place not in game"]
          ELSE [status |-> 200, error |-> ""]

\* the first check that fails, status 200 when none does
ResultsError(g, body) ==
  IF body.gameId = 0 \/ body.first = None
  THEN [status |-> 400, error |-> "Missing gameId or first place winner"]
  ELSE IF body.gameId \notin DOMAIN g
  THEN [status |-> 404, error |-> "Game not found"]
  ELSE LET players == JSONparse(g[body.gameId].players)
       IN IF ~Includes(players, body.first)
          THEN [status |-> 400, error |-> "First place not in game"]
          ELSE IF body.second # None /\ ~Includes(players, body.second)
          THEN [status |-> 400, error |-> "Second place not in game"]
          ELSE IF body.third # None /\ ~Includes(players, body.third)
          THEN [status |-> 400, error |-> "Third place not in game"]
          ELSE [status |-> 200, error |-> ""]

RECURSIVE SumWins(_, _)
SumWins(stats, rows) ==
  IF rows = {} THEN 0
  ELSE LET p == CHOOSE q \in rows : TRUE
       IN stats[p].wins + SumWins(stats, rows \ {p})

Results(body) ==
  LET check == ResultsError(games, body)
  IN IF check.status # 200
     THEN /\ resp' = Response("results", check.status, check.error)
          /\ UNCHANGED <<games, lastId, player_stats, reqs, issued>>
     ELSE /\ SumWins(player_stats, DOMAIN player_stats) < MaxWins
          /\ games' = SetPlacements(games, body.gameId, body.first, body.second, body.third)
          /\ player_stats' = ApplyResults(player_stats, body.first, body.second, body.third)
          /\ resp' = Response("results", 200, "")
          /\ UNCHANGED <<lastId, reqs, issued>>

(***************************************************************************)
(* DELETE /api/admin/game/:id and PATCH /api/admin/game/:id                *)
(***************************************************************************)
\* DELETE FROM games WHERE id = ?
DeleteGame(g, id) == [k \in DOMAIN g \ {id} |-> g[k]]

\* the DELETE handler without the recalculation that follows the delete
AdminDelete_NoRecalc(id) ==
  /\ games' = DeleteGame(games, id)
  /\ resp' = Response("delete", 200, "")
  /\ UNCHANGED <<lastId, player_stats, reqs, issued>>

AdminDelete(id) ==
  /\ games' = DeleteGame(games, id)
  /\ player_stats' = recalculateStats(player_stats, games')
  /\ resp' = Response("delete", 200, "")
  /\ UNCHANGED <<lastId, reqs, issued>>

\* the PATCH handler without its placement checks
NotInGame_Unchecked(players, x) == FALSE

\* x && !players.includes(x)
NotInGame(players, x) == x \notin {None, Undefined} /\ ~Includes(players, x)

PatchError(g, id, body) ==
  IF id \notin DOMAIN g
  THEN [status |-> 404, error |-> "Game not found"]
  ELSE LET players == JSONparse(g[id].players)
       IN IF NotInGame(players, body.winner)
          THEN [status |-> 400, error |-> "Winner not in game"]
          ELSE IF NotInGame(players, body.second_place)
          THEN [status |-> 400, error |-> "2nd place not in game"]
          ELSE IF NotInGame(players, body.third_place)
          THEN [status |-> 400, error |-> "3rd place not in game"]
          ELSE [status |-> 200, error |-> ""]

\* the UPDATE without its WHERE clause: every stored game is updated
PatchGame_NoWhere(g, id, body) ==
  [k \in DOMAIN g |->
     [g[k] EXCEPT !.winner = IF body.winner = Undefined THEN @ ELSE body.winner,
                  !.second_place = IF body.second_place = Undefined THEN @ ELSE body.second_place,
                  !.third_place = IF body.third_place = Undefined THEN @ ELSE body.third_place]]

\* UPDATE games SET <the fields of the body that are not undefined> WHERE id = ?
\* the UPDATE setting all three placements, an absent one to NULL
PatchGame_AllFields(g, id, body) ==
  [g EXCEPT ![id].winner = IF body.winner = Undefined THEN None ELSE body.winner,
            ![id].second_place = IF body.second_place = Undefined THEN None ELSE body.second_place,
            ![id].third_place = IF body.third_place = Undefined THEN None ELSE body.third_place]

PatchGame(g, id, body) ==
  [g EXCEPT ![id].winner = IF body.winner = Undefined THEN @ ELSE body.winner,
            ![id].second_place = IF body.second_place = Undefined THEN @ ELSE body.second_place,
            ![id].third_place = IF body.third_place = Undefined THEN @ ELSE body.third_place]

AdminPatch(id, body) ==
  LET check == PatchError(games, id, body)
      updateFields == {f \in {body.winner, body.second_place, body.third_place} : f # Undefined}
  IN IF check.status # 200
     THEN /\ resp' = Response("patch", check.status, check.error)
          /\ UNCHANGED <<games, lastId, player_stats, reqs, issued>>
     ELSE /\ games' = IF updateFields # {} THEN PatchGame(games, id, body) ELSE games
          /\ player_stats' = IF updateFields # {}
                             THEN recalculateStats(player_stats, games')
                             ELSE player_stats
          /\ resp' = Response("patch", 200, "")
          /\ UNCHANGED <<lastId, reqs, issued>>

(***************************************************************************)
(* GET /api/active-game                                                    *)
(***************************************************************************)
\* the SELECT without its WHERE clause: the latest game, settled or not
ActiveRow_AnyWinner(g) ==
  IF DOMAIN g = {} THEN 0
  ELSE CHOOSE id \in DOMAIN g : \A k \in DOMAIN g : k <= id

\* SELECT id, players, seating_hash, buy_in FROM games WHERE winner IS NULL
\* ORDER BY id DESC LIMIT 1: the id of the row, 0 when there is none
ActiveRow(g) ==
  IF ActiveIds(g) = {} THEN 0
  ELSE CHOOSE id \in ActiveIds(g) : \A k \in ActiveIds(g) : k <= id

\* res.json(gameData)
ActiveGameData(id, row) ==
  [op |-> "active-game", status |-> 200, error |-> "", found |-> TRUE, gameId |-> id,
   seating |-> JSONparse(row.players), buyIn |-> IF row.buy_in = 0 THEN 0 ELSE row.buy_in]

\* res.json(null)
ActiveGameNull ==
  [op |-> "active-game", status |-> 200, error |-> "", found |-> FALSE, gameId |-> 0,
   seating |-> <<>>, buyIn |-> 0]

\* the stored players column is always the output of JSON.stringify, so the
\* catch around JSON.parse is never entered
ActiveGame ==
  /\ resp' = LET id == ActiveRow(games)
             IN IF id # 0 THEN ActiveGameData(id, games[id]) ELSE ActiveGameNull
  /\ UNCHANGED <<games, lastId, player_stats, reqs, issued>>

(***************************************************************************)
(* Requests served one at a time                                           *)
(***************************************************************************)
GenerateBodies == [players : Rosters, buyIn : BuyInInputs]
\* results: any gameId and first alone, or a valid first with any second and third
ResultsBodies ==
  [gameId : GameIdInputs, first : FirstInputs, second : {None}, third : {None}]
  \cup [gameId : GameIdInputs \ {0}, first : {"A"}, second : SecondInputs, third : ThirdInputs]
\* patches: the winner alone, or a valid winner with second and third
PatchBodies ==
  [winner : PatchWinners, second_place : {Undefined}, third_place : {Undefined}]
  \cup [winner : {"A"}, second_place : PatchSeconds, third_place : PatchThirds]

Init ==
  /\ games = <<>>
  /\ lastId = 0
  /\ player_stats = <<>>
  /\ resp = NoResponse
  /\ reqs = <<>>
  /\ issued = {}

Next ==
  \/ \E body \in GenerateBodies : Generate(body)
  \/ \E body \in ResultsBodies : Results(body)
  \/ \E id \in 1..MaxGames : AdminDelete(id)
  \/ \E id \in 1..MaxGames, body \in PatchBodies : AdminPatch(id, body)
  \/ ActiveGame

Spec == Init /\ [][Next]_vars

(***************************************************************************)
(* POST /api/generate in steps, so that requests in flight interleave.     *)
(* A step runs the statement the request waits for and then the handler up *)
(* to its next await. The SELECTs of the retry loop are one step: a        *)
(* colliding attempt writes nothing and only leads to the next attempt, so *)
(* the loop ends as it would had all its attempts read the store that its  *)
(* last attempt reads.                                                     *)
(***************************************************************************)
MaxReqs == 2         \* generate requests in flight

UnhandledRejection == "SQLITE_CONSTRAINT: unhandled rejection"

Slots == 1..MaxReqs
Idle == [pc |-> "idle", players |-> <<>>, buyIn |-> 0, seating |-> <<>>]
Down == [Idle EXCEPT !.pc = "down"]
InFlight == {i \in Slots : reqs[i].pc # "idle"}
ServerUp == \A i \in Slots : reqs[i].pc # "down"

\* lines 350-355: parse the body, reject a bad roster, else ask for active games
GenReceive(i, body) ==
  /\ reqs[i].pc = "idle"
  /\ IF ~ValidPlayers(body)
     THEN /\ resp' = Response("generate", 400, "Invalid players list")
          /\ UNCHANGED reqs
     ELSE /\ lastId + Cardinality(InFlight) < MaxGames
          /\ reqs' = [reqs EXCEPT ![i] = [Idle EXCEPT !.pc = "checkActive",
                                                      !.players = body.players.items,
                                                      !.buyIn = ParseBuyIn(body.buyIn)]]
          /\ resp' = NoResponse
  /\ UNCHANGED <<games, lastId, player_stats, issued>>

\* lines 358-376: the active-game SELECT answers; 409, or enter the loop
GenCheckActive(i) ==
  /\ reqs[i].pc = "checkActive"
  /\ IF HasActive(games)
     THEN /\ resp' = Response("generate", 409, ConflictMessage)
          /\ reqs' = [reqs EXCEPT ![i] = Idle]
     ELSE /\ reqs' = [reqs EXCEPT ![i].pc = "loop"]
          /\ resp' = NoResponse
  /\ UNCHANGED <<games, lastId, player_stats, issued>>

\* lines 378-393 and 410-412: the loop runs to a seating whose hash is not
\* stored, or runs out
GenLoop(i) ==
  /\ reqs[i].pc = "loop"
  /\ \E seating \in GenerateLoop(shuffle(reqs[i].players),
                                  FreshSeatings(reqs[i].players, games), 0) :
       IF seating = <<>>
       THEN /\ reqs' = [reqs EXCEPT ![i] = Idle]
            /\ resp' = Response("generate", 409, ExhaustedMessage)
       ELSE /\ reqs' = [reqs EXCEPT ![i].pc = "insert", ![i].seating = seating]
            /\ resp' = NoResponse
  /\ UNCHANGED <<games, lastId, player_stats, issued>>

\* lines 394-408: the INSERT runs. Stored: updatePlayerStats queues its
\* statements and resolves at once, and the seating is returned. Refused by the
\* UNIQUE index: the promise rejects outside any try, which ends the node
\* process (src/Dockerfile: node 20): no request in flight is answered and the
\* statements still queued are lost
GenInsert(i) ==
  LET seating == reqs[i].seating
      hash == hashSeating(seating)
  IN /\ reqs[i].pc = "insert"
     /\ IF InsertAllowed(games, hash)
        THEN /\ games' = InsertGame(games, NextId(games, lastId), seating, hash, reqs[i].buyIn)
             /\ lastId' = NextId(games, lastId)
             /\ reqs' = [reqs EXCEPT ![i].pc = "stats"]
             /\ resp' = GenerateOk(seating, NextId(games, lastId))
             /\ issued' = issued \cup {seating}
        ELSE /\ reqs' = [k \in Slots |-> Down]
             /\ resp' = Response("generate", 0, UnhandledRejection)
             /\ UNCHANGED <<games, lastId, issued>>
     /\ UNCHANGED player_stats

\* lines 231-248: the queued statements of updatePlayerStats run
GenStats(i) ==
  /\ reqs[i].pc = "stats"
  /\ player_stats' = updatePlayerStats(player_stats, reqs[i].seating, reqs[i].buyIn)
  /\ reqs' = [reqs EXCEPT ![i] = Idle]
  /\ resp' = NoResponse
  /\ UNCHANGED <<games, lastId, issued>>

\* lines 103-119: the process starts again on the stored tables and
\* recalculates the statistics
Restart ==
  /\ ~ServerUp
  /\ reqs' = [i \in Slots |-> Idle]
  /\ player_stats' = recalculateStats(player_stats, games)
  /\ resp' = NoResponse
  /\ UNCHANGED <<games, lastId, issued>>

\* requests that carry no buy-in
AsyncGenerateBodies == [players : {Array(<<"A">>), Array(<<"A", "B">>)}, buyIn : {NotNumber}]
AsyncResultsBodies == [gameId : 1..MaxGames, first : {"A"}, second : {None}, third : {None}]

InitAsync ==
  /\ games = <<>>
  /\ lastId = 0
  /\ player_stats = <<>>
  /\ resp = NoResponse
  /\ reqs = [i \in Slots |-> Idle]
  /\ issued = {}

NextAsync ==
  \/ \E i \in Slots, body \in AsyncGenerateBodies : GenReceive(i, body)
  \/ \E i \in Slots : GenCheckActive(i)
  \/ \E i \in Slots : GenLoop(i)
  \/ \E i \in Slots : GenInsert(i)
  \/ \E i \in Slots : GenStats(i)
  \/ \E body \in AsyncResultsBodies : ServerUp /\ Results(body)
  \/ \E id \in 1..MaxGames : ServerUp /\ AdminDelete(id)
  \/ Restart

SpecAsync == InitAsync /\ [][NextAsync]_vars

(***************************************************************************)
(* A table of three: games are generated for the roster A, B, C (or asked  *)
(* for without a roster), the results of a game are recorded while it is   *)
(* active (once per game), with placements the handler accepts, and the    *)
(* admin deletes games.                                                    *)
(***************************************************************************)
PlayGenerateBodies == [players : {NotArray, Array(<<"A", "B", "C">>)}, buyIn : {Num(50)}]
PlayResultsBodies ==
  [gameId : 1..MaxGames, first : {"A", "B"}, second : {None, "A"}, third : {None}]

\* POST /api/results for a game that has no results yet
RecordOnce(body) == body.gameId \in ActiveIds(games) /\ Results(body)

NextPlay ==
  \/ \E body \in PlayGenerateBodies : Generate(body)
  \/ \E body \in PlayResultsBodies : RecordOnce(body)
  \/ \E id \in 1..MaxGames : AdminDelete(id)

SpecPlay == Init /\ [][NextPlay]_vars

(***************************************************************************)
(* The retry loop of POST /api/generate one attempt at a time, for one     *)
(* generate request in flight; results and deletions are served between    *)
(* its attempts. reqs is the request: where it stands, its roster and      *)
(* buy-in, the attempts made, and the candidate of the last attempt.       *)
(***************************************************************************)
LoopIdle == [pc |-> "idle", players |-> <<>>, buyIn |-> 0, attempts |-> 0, seating |-> <<>>]

\* a loop that goes round once more than 50 times
LoopGoesOn_OneMore(attempts) == attempts <= MaxAttempts

\* while (attempts < 50)
LoopGoesOn(attempts) == attempts < MaxAttempts

\* lines 350-355: parse the body, reject a bad roster, else ask for active games
LoopReceive(body) ==
  /\ reqs.pc = "idle"
  /\ IF ~ValidPlayers(body)
     THEN /\ resp' = Response("generate", 400, "Invalid players list")
          /\ UNCHANGED reqs
     ELSE /\ lastId <= MaxGames
          /\ reqs' = [LoopIdle EXCEPT !.pc = "checkActive",
                                      !.players = body.players.items,
                                      !.buyIn = ParseBuyIn(body.buyIn)]
          /\ resp' = NoResponse
  /\ UNCHANGED <<games, lastId, player_stats, issued>>

\* lines 358-378: the active-game SELECT answers; 409, or attempts = 0
LoopCheckActive ==
  /\ reqs.pc = "checkActive"
  /\ IF HasActive(games)
     THEN /\ resp' = Response("generate", 409, ConflictMessage)
          /\ reqs' = LoopIdle
     ELSE /\ reqs' = [reqs EXCEPT !.pc = "loop"]
          /\ resp' = NoResponse
  /\ UNCHANGED <<games, lastId, player_stats, issued>>

\* lines 379-409: one turn of the loop. attempts++, a candidate is drawn and
\* looked up; not stored: it is inserted, the statistics are updated and the
\* seating is returned; stored: the loop goes round
LoopAttempt ==
  /\ reqs.pc = "loop"
  /\ LoopGoesOn(reqs.attempts)
  /\ \E draw \in ShuffleCopy(reqs.players) :
       LET seating == draw.seating
           hash == hashSeating(seating)
       IN IF ~HashExists(games, hash)
          THEN /\ games' = InsertGame(games, NextId(games, lastId), seating, hash, reqs.buyIn)
               /\ lastId' = NextId(games, lastId)
               /\ player_stats' = updatePlayerStats(player_stats, seating, reqs.buyIn)
               /\ resp' = GenerateOk(seating, NextId(games, lastId))
               /\ issued' = issued \cup {seating}
               /\ reqs' = LoopIdle
          ELSE /\ reqs' = [reqs EXCEPT !.attempts = @ + 1, !.seating = seating,
                                         !.players = draw.players]
               /\ resp' = NoResponse
               /\ UNCHANGED <<games, lastId, player_stats, issued>>

\* lines 379 and 412: the loop condition fails, 409
LoopExhausted ==
  /\ reqs.pc = "loop"
  /\ ~LoopGoesOn(reqs.attempts)
  /\ resp' = Response("generate", 409, ExhaustedMessage)
  /\ reqs' = LoopIdle
  /\ UNCHANGED <<games, lastId, player_stats, issued>>

LoopStep == LoopCheckActive \/ LoopAttempt \/ LoopExhausted

LoopGenerateBodies == [players : {Array(<<"A">>), Array(<<"A", "B">>)}, buyIn : {NotNumber}]
LoopResultsBodies == [gameId : 1..MaxGames + 1, first : {"A"}, second : {None}, third : {None}]

InitLoop ==
  /\ games = <<>>
  /\ lastId = 0
  /\ player_stats = <<>>
  /\ resp = NoResponse
  /\ reqs = LoopIdle
  /\ issued = {}

NextLoop ==
  \/ \E body \in LoopGenerateBodies : LoopReceive(body)
  \/ LoopCheckActive
  \/ LoopAttempt
  \/ LoopExhausted
  \/ \E body \in LoopResultsBodies : Results(body)
  \/ \E id \in 1..MaxGames + 1 : AdminDelete(id)

\* every statement queued on the database connection runs: a request that
\* waits for one goes on
SpecLoop == InitLoop /\ [][NextLoop]_vars /\ WF_vars(LoopStep)

(***************************************************************************)
(* Any request body on POST /api/generate: no array, an empty roster, one  *)
(* name, a name twice, two names; without a buy-in or with a buy-in that   *)
(* is no number, and with a buy-in of zero, above zero and below zero.     *)
(***************************************************************************)
InputRosters ==
  {NotArray, Array(<<>>), Array(<<"A">>), Array(<<"A", "A">>), Array(<<"A", "B">>)}
InputBuyIns == {NotNumber, Num(0), Num(50), Num(0 - 25)}
InputGenerateBodies == [players : InputRosters, buyIn : InputBuyIns]
InputResultsBodies == [gameId : 1..MaxGames, first : {"A"}, second : {None}, third : {None}]

NextInputs ==
  \/ \E body \in InputGenerateBodies : Generate(body)
  \/ \E body \in InputResultsBodies : Results(body)
  \/ \E id \in 1..MaxGames : AdminDelete(id)

SpecInputs == Init /\ [][NextInputs]_vars

(***************************************************************************)
(* The database refusing a statement of updatePlayerStats. The statements  *)
(* are queued with db.run without a callback and the promise resolves as   *)
(* soon as they are queued, so the handler goes on to res.json before any  *)
(* of them has run. What the sqlite3 package does with the error of a      *)
(* statement that has no callback is not in this repository: the error is  *)
(* dropped, or it is emitted as an error event that nothing listens to,    *)
(* which ends the process; the process then starts again and recalculates. *)
(***************************************************************************)
\* players without the k-th
Without(players, k) == SubSeq(players, 1, k - 1) \o SubSeq(players, k + 1, Len(players))

GenerateStatsError(body) ==
  /\ ValidPlayers(body)
  /\ ~HasActive(games)
  /\ lastId < MaxGames
  /\ \E seating \in GenerateLoop(shuffle(body.players.items),
                                  FreshSeatings(body.players.items, games), 0) \ {<<>>},
        k \in 1..Len(body.players.items), exits \in BOOLEAN :
       LET buyIn == ParseBuyIn(body.buyIn)
           hash == hashSeating(seating)
           written == updatePlayerStats(player_stats, Without(seating, k), buyIn)
       IN /\ games' = InsertGame(games, NextId(games, lastId), seating, hash, buyIn)
          /\ lastId' = NextId(games, lastId)
          /\ player_stats' = IF exits THEN recalculateStats(written, games') ELSE written
          /\ resp' = GenerateOk(seating, NextId(games, lastId))
          /\ issued' = issued \cup {seating}
          /\ UNCHANGED reqs

FaultGenerateBodies == [players : {NotArray, Array(<<"A", "B">>)}, buyIn : {NotNumber, Num(50)}]
FaultResultsBodies == [gameId : 1..MaxGames, first : {"A", "B"}, second : {None}, third : {None}]

NextFaults ==
  \/ \E body \in FaultGenerateBodies : Generate(body)
  \/ \E body \in FaultGenerateBodies : GenerateStatsError(body)
  \/ \E body \in FaultResultsBodies : Results(body)
  \/ \E id \in 1..MaxGames : AdminDelete(id)

SpecFaults == Init /\ [][NextFaults]_vars

(***************************************************************************)
(* GET /api/stats, on tables where the players have played different       *)
(* numbers of games: games of A and B and games of B and C.                *)
(***************************************************************************)
\* ORDER BY net_profit DESC only
RowBefore_NetOnly(x, y) == x.net_profit >= y.net_profit

\* ORDER BY net_profit DESC, wins DESC, games_played DESC: row x may come
\* before row y
RowBefore(x, y) ==
  \/ x.net_profit > y.net_profit
  \/ /\ x.net_profit = y.net_profit
     /\ \/ x.wins > y.wins
        \/ /\ x.wins = y.wins
           /\ x.games_played >= y.games_played

\* the orders in which the SELECT may return the rows: rows that are equal in
\* the three columns come in any order
SelectStats(table) ==
  LET n == Cardinality(DOMAIN table)
  IN {order \in [1..n -> DOMAIN table] :
        /\ \A i, j \in 1..n : i # j => order[i] # order[j]
        /\ \A i, j \in 1..n : i < j => RowBefore(table[order[i]], table[order[j]])}

\* x || 0
OrZero(x) == IF x = 0 THEN 0 ELSE x

\* Math.round((part / whole) * 100), none of the three below 0
RoundPercent(part, whole) == (200 * part + whole) \div (2 * whole)

\* rows.map(row => ({...}))
StatsEntry(player, row) ==
  [player |-> player,
   gamesPlayed |-> row.games_played,
   wins |-> row.wins,
   top3 |-> OrZero(row.top3),
   buyins |-> OrZero(row.total_buyins),
   winnings |-> OrZero(row.total_winnings),
   netProfit |-> OrZero(row.net_profit),
   winRate |-> IF row.games_played > 0 THEN RoundPercent(row.wins, row.games_played) ELSE 0,
   top3Rate |-> IF row.games_played > 0
                THEN RoundPercent(OrZero(row.top3), row.games_played) ELSE 0]

Stats ==
  /\ \E order \in SelectStats(player_stats) :
       resp' = [op |-> "stats", status |-> 200,
                stats |-> [i \in DOMAIN order |-> StatsEntry(order[i], player_stats[order[i]])]]
  /\ UNCHANGED <<games, lastId, player_stats, reqs, issued>>

StatsGenerateBodies ==
  [players : {NotArray, Array(<<"A", "B">>), Array(<<"B", "C">>)}, buyIn : {NotNumber, Num(50)}]
StatsResultsBodies == [gameId : 1..MaxGames, first : {"A", "B"}, second : {None}, third : {None}]

NextStats ==
  \/ \E body \in StatsGenerateBodies : Generate(body)
  \/ \E body \in StatsResultsBodies : Results(body)
  \/ \E id \in 1..MaxGames : AdminDelete(id)
  \/ Stats

SpecStats == Init /\ [][NextStats]_vars

(***************************************************************************)
(* DELETE /api/admin/game/:id in steps, one per statement it waits for,    *)
(* while one generate request goes through its own steps and results are   *)
(* recorded. reqs[0] is the admin request: where it stands, and the games  *)
(* its SELECT returned.                                                    *)
(***************************************************************************)
AdminIdle == [pc |-> "idle", games |-> <<>>]

\* lines 690-695: DELETE FROM games WHERE id = ?
RecalcDeleteGame(id) ==
  /\ ServerUp
  /\ reqs[0].pc = "idle"
  /\ games' = DeleteGame(games, id)
  /\ reqs' = [reqs EXCEPT ![0].pc = "reset"]
  /\ resp' = NoResponse
  /\ UNCHANGED <<lastId, player_stats, issued>>

\* lines 253-258: DELETE FROM player_stats
RecalcReset ==
  /\ reqs[0].pc = "reset"
  /\ player_stats' = DeleteStats(player_stats)
  /\ reqs' = [reqs EXCEPT ![0].pc = "select"]
  /\ resp' = NoResponse
  /\ UNCHANGED <<games, lastId, issued>>

\* line 261: SELECT players, winner, second_place, third_place, buy_in FROM games
RecalcSelect ==
  /\ reqs[0].pc = "select"
  /\ reqs' = [reqs EXCEPT ![0] = [pc |-> "insert", games |-> games]]
  /\ resp' = NoResponse
  /\ UNCHANGED <<games, lastId, player_stats, issued>>

\* lines 267-312 and 697-705: the rows are counted from the games selected and
\* inserted; an insert on a player who has a row by now fails, recalculateStats
\* rejects and the handler answers 500
RecalcInsert ==
  /\ reqs[0].pc = "insert"
  /\ LET stats == CountGames(<<>>, reqs[0].games, DOMAIN reqs[0].games)
     IN /\ player_stats' = InsertStats(player_stats, stats)
        /\ resp' = IF DOMAIN stats \cap DOMAIN player_stats = {}
                   THEN Response("delete", 200, "")
                   ELSE Response("delete", 500, "Failed to delete game")
  /\ reqs' = [reqs EXCEPT ![0] = AdminIdle]
  /\ UNCHANGED <<games, lastId, issued>>

InitRecalc ==
  /\ games = <<>>
  /\ lastId = 0
  /\ player_stats = <<>>
  /\ resp = NoResponse
  /\ reqs = [i \in {0} \cup Slots |-> IF i = 0 THEN AdminIdle ELSE Idle]
  /\ issued = {}

NextRecalc ==
  \/ \E body \in AsyncGenerateBodies : GenReceive(1, body)
  \/ GenCheckActive(1)
  \/ GenLoop(1)
  \/ GenInsert(1)
  \/ GenStats(1)
  \/ \E body \in AsyncResultsBodies : Results(body)
  \/ \E id \in 1..MaxGames : RecalcDeleteGame(id)
  \/ RecalcReset
  \/ RecalcSelect
  \/ RecalcInsert

SpecRecalc == InitRecalc /\ [][NextRecalc]_vars

(***************************************************************************)
(* Results recorded on games of A, B and C, with and without a second and  *)
(* a third, any number of times per game.                                  *)
(***************************************************************************)
PlacedResultsBodies ==
  [gameId : 1..MaxGames, first : {"A"}, second : {None, "B"}, third : {None, "C"}]

NextResults ==
  \/ \E body \in PlayGenerateBodies : Generate(body)
  \/ \E body \in PlacedResultsBodies : Results(body)

SpecResults == Init /\ [][NextResults]_vars

(***************************************************************************)
(* Games created and then edited by the admin PATCH alone: the placements  *)
(* of a game are set, replaced and cleared by PATCH requests.              *)
(***************************************************************************)
NextPatch ==
  \/ \E body \in GenerateBodies : Generate(body)
  \/ \E id \in 1..MaxGames, body \in PatchBodies : AdminPatch(id, body)

SpecPatch == Init /\ [][NextPatch]_vars

(***************************************************************************)
(* describePayouts called on its own, for a number of seats and a buy-in   *)
(***************************************************************************)
MaxSeats == 9        \* seats of a payout call
MaxChips == 10       \* buy-ins of a payout call, in steps of 25

SeatCounts == 0..MaxSeats
BuyIns == {25 * k : k \in -1..MaxChips}

Payouts(playerCount, buyIn) ==
  /\ resp' = [op |-> "describePayouts", playerCount |-> playerCount, buyIn |-> buyIn,
              payouts |-> describePayouts(playerCount, buyIn)]
  /\ UNCHANGED <<games, lastId, player_stats, reqs, issued>>

NextPayouts == \E playerCount \in SeatCounts, buyIn \in BuyIns : Payouts(playerCount, buyIn)

SpecPayouts == Init /\ [][NextPayouts]_vars

(***************************************************************************)
(* hashSeating called on its own, character by character: a name is a      *)
(* sequence of characters, among them the quote and the comma that         *)
(* JSON.stringify writes itself.                                           *)
(***************************************************************************)
MaxNames == 2        \* names of a hashed seating
MaxChars == 3        \* characters of a hashed seating, all names together

Chars == {"a", ",", "\""}
NamesUpTo(chars) == UNION {[1..n -> Chars] : n \in 0..chars}

\* the seatings of `names` names that have at most `chars` characters
RECURSIVE SeatingsOf(_, _)
SeatingsOf(names, chars) ==
  IF names = 0 THEN {<<>>}
  ELSE UNION { { <<name>> \o rest : rest \in SeatingsOf(names - 1, chars - Len(name)) } :
               name \in NamesUpTo(chars) }

HashedSeatings == UNION {SeatingsOf(names, MaxChars) : names \in 0..MaxNames}

\* a string written without escapes
JSONescape_None(c) == <<c>>

\* JSON.stringify of one character of a string: the quote and the backslash
\* get a backslash in front
JSONescape(c) == IF c \in {"\"", "\\"} THEN <<"\\", c>> ELSE <<c>>

RECURSIVE JSONstringChars(_)
JSONstringChars(name) ==
  IF name = <<>> THEN <<>> ELSE JSONescape(Head(name)) \o JSONstringChars(Tail(name))

\* JSON.stringify of a string: its characters between quotes
JSONstring(name) == <<"\"">> \o JSONstringChars(name) \o <<"\"">>

RECURSIVE JSONarrayChars(_)
JSONarrayChars(seating) ==
  IF seating = <<>> THEN <<>>
  ELSE IF Len(seating) = 1 THEN JSONstring(Head(seating))
  ELSE JSONstring(Head(seating)) \o <<",">> \o JSONarrayChars(Tail(seating))

\* JSON.stringify of an array of strings, as the characters of the text
JSONstringifyChars(seating) == <<"[">> \o JSONarrayChars(seating) \o <<"]">>

hashSeatingChars(seating) == sha256(JSONstringifyChars(seating))

\* a seating is given
InitHash ==
  /\ games = <<>>
  /\ lastId = 0
  /\ player_stats = <<>>
  /\ resp \in [op : {"seating"}, seating : HashedSeatings, hash : {<<>>}]
  /\ reqs = [i \in Slots |-> Idle]
  /\ issued = {}

\* and hashed
HashSeating ==
  /\ resp.op = "seating"
  /\ resp' = [op |-> "hashSeating", seating |-> resp.seating,
              hash |-> hashSeatingChars(resp.seating)]
  /\ UNCHANGED <<games, lastId, player_stats, reqs, issued>>

NextHash == HashSeating

SpecHash == InitHash /\ [][NextHash]_vars

(***************************************************************************)
(* Properties                                                              *)
(***************************************************************************)
GenerateSucceeded(r) == r.op = "generate" /\ r.status = 200
ResultsSucceeded(r) == r.op = "results" /\ r.status = 200
SeatingOf(game) == JSONparse(game.players)

\* C1: in every reachable state at most one game has no winner
C1_AtMostOneActive == Cardinality(ActiveIds(games)) <= 1

\* C2 as stated: right after a successful generate exactly one game is active,
\* and right after any successful results no game is active
C2_ZeroActiveAfterResults ==
  /\ GenerateSucceeded(resp) => Cardinality(ActiveIds(games)) = 1
  /\ ResultsSucceeded(resp) => ActiveIds(games) = {}

\* C2 amended: right after a successful generate exactly one game is active;
\* a successful results settles the addressed game and leaves every other game
\* as active or settled as it was
C2_ResultsSettlesAddressedGame ==
  /\ [](GenerateSucceeded(resp) => Cardinality(ActiveIds(games)) = 1)
  /\ [][ResultsSucceeded(resp') =>
          \A body \in ResultsBodies :
            Results(body) => ActiveIds(games') = ActiveIds(games) \ {body.gameId}]_vars

C2_Witness ==
  /\ ResultsSucceeded(resp)
  /\ Cardinality(DOMAIN games) = 2
  /\ Cardinality(ActiveIds(games)) = 1

\* C3: a successful generate returns a seating whose hash was not stored, and
\* adds exactly one game: the returned id, with that seating, its hash, the
\* request's buy-in and no placements; every other game stays as it was
C3_GenerateAddsOneFreshGame ==
  [][GenerateSucceeded(resp') =>
       LET id == resp'.gameId
           seating == resp'.seating
       IN /\ ~HashExists(games, hashSeating(seating))
          /\ id \notin DOMAIN games
          /\ DOMAIN games' = DOMAIN games \cup {id}
          /\ \A k \in DOMAIN games : games'[k] = games[k]
          /\ SeatingOf(games'[id]) = seating
          /\ games'[id].seating_hash = hashSeating(seating)
          /\ games'[id].winner = None
          /\ games'[id].second_place = None
          /\ games'[id].third_place = None
          /\ \A body \in GenerateBodies :
               Generate(body) => games'[id].buy_in = ParseBuyIn(body.buyIn)]_vars

C3_Witness ==
  /\ GenerateSucceeded(resp)
  /\ resp.gameId = 2
  /\ Cardinality(DOMAIN games) = 2
  /\ games[2].buy_in = 50

\* C4 as stated: with a valid roster, no active game and some permutation of the
\* roster not stored, generate does not fail with the exhausted-attempts error
C4_NeverExhaustedWhilePermutationLeft ==
  [][resp'.op = "generate" =>
     \A body \in GenerateBodies :
       (/\ ValidPlayers(body)
        /\ ActiveIds(games) = {}
        /\ FreshSeatings(body.players.items, games) # {}
        /\ Generate(body))
       => resp'.error # ExhaustedMessage]_vars

\* C4 amended: with a valid roster and no active game, generate either returns a
\* permutation of the roster that is not stored or fails with the
\* exhausted-attempts error, the latter only when some permutation of the roster
\* is stored (every candidate drawn collided); it always succeeds when none is
\* stored and always fails when all are
C4_ExhaustedOnlyByCollisions ==
  [][resp'.op = "generate" =>
     \A body \in GenerateBodies :
       (/\ ValidPlayers(body)
        /\ ActiveIds(games) = {}
        /\ Generate(body)) =>
         LET all == shuffle(body.players.items)
             fresh == FreshSeatings(body.players.items, games)
         IN /\ \/ GenerateSucceeded(resp') /\ resp'.seating \in fresh
               \/ resp'.status = 409 /\ resp'.error = ExhaustedMessage /\ fresh # all
            /\ fresh = all => GenerateSucceeded(resp')
            /\ fresh = {} => resp'.error = ExhaustedMessage]_vars

C4_Witness ==
  /\ resp.error = ExhaustedMessage
  /\ ActiveIds(games) = {}
  /\ FreshSeatings(<<"A", "B">>, games) # {}

\* C5: no seating is returned by two successful generate calls
C5_NeverSameSeatingTwice ==
  [][GenerateSucceeded(resp') => resp'.seating \notin issued]_vars

\* C7 as stated: any generate made while a game is active answers 409 "already
\* in progress" and changes neither games nor player_stats
C7_ConflictWhileActive ==
  [][resp'.op = "generate" =>
     \A body \in GenerateBodies :
       (ActiveIds(games) # {} /\ Generate(body)) =>
         /\ resp'.status = 409 /\ resp'.error = ConflictMessage
         /\ games' = games /\ player_stats' = player_stats]_vars

\* C7 amended: a generate made while a game is active changes neither games nor
\* player_stats; it answers 409 "already in progress" when its roster is an array
\* of at least 2 entries, and 400 otherwise
C7_ConflictWhileActiveValidRoster ==
  [][resp'.op = "generate" =>
     \A body \in GenerateBodies :
       (ActiveIds(games) # {} /\ Generate(body)) =>
         /\ games' = games /\ player_stats' = player_stats /\ lastId' = lastId
         /\ IF ValidPlayers(body)
            THEN resp'.status = 409 /\ resp'.error = ConflictMessage
            ELSE resp'.status = 400]_vars

C7_Witness ==
  /\ resp.op = "generate" /\ resp.error = ConflictMessage
  /\ ActiveIds(games) # {}
  /\ DOMAIN player_stats # {}

\* C8: a results call on a stored game whose first is not in the game's seating
\* answers 400 and changes neither games nor player_stats
C8_FirstNotInGameRejected ==
  [][resp'.op = "results" =>
     \A id \in DOMAIN games :
       LET players == SeatingOf(games[id])
       IN \A body \in ResultsBodies :
            (/\ body.gameId = id
             /\ ~Includes(players, body.first)
             /\ Results(body))
            => /\ resp'.status = 400
               /\ games' = games /\ player_stats' = player_stats]_vars

C8_Witness ==
  /\ resp.op = "results" /\ resp.error = "First place not in game"
  /\ ActiveIds(games) # {}

\* C9: a results call on a stored game with a valid first and a second or third
\* that is not in the game's seating answers 400 and changes neither games nor
\* player_stats
C9_SecondThirdCheckedBeforeWrite ==
  [][resp'.op = "results" =>
     \A id \in DOMAIN games :
       LET players == SeatingOf(games[id])
       IN \A body \in ResultsBodies :
            (/\ body.gameId = id
             /\ Includes(players, body.first)
             /\ \/ body.second # None /\ ~Includes(players, body.second)
                \/ body.third # None /\ ~Includes(players, body.third)
             /\ Results(body))
            => /\ resp'.status = 400
               /\ games' = games /\ player_stats' = player_stats]_vars

C9_Witness ==
  /\ resp.op = "results" /\ resp.error = "Third place not in game"
  /\ ActiveIds(games) # {}

\* C10 as stated: a results call whose gameId matches no stored game answers 404
\* and changes neither games nor player_stats
C10_UnknownGameNotFound ==
  [][resp'.op = "results" =>
     \A body \in ResultsBodies :
       (body.gameId \notin DOMAIN games /\ Results(body)) =>
         /\ resp'.status = 404
         /\ games' = games /\ player_stats' = player_stats]_vars

\* C10 amended: a results call whose gameId matches no stored game changes
\* neither games nor player_stats; it answers 404 when gameId and first are both
\* supplied, and 400 when either is missing
C10_UnknownGameNotFoundWhenFirstGiven ==
  [][resp'.op = "results" =>
     \A body \in ResultsBodies :
       (body.gameId \notin DOMAIN games /\ Results(body)) =>
         /\ games' = games /\ player_stats' = player_stats
         /\ IF body.gameId # 0 /\ body.first # None
            THEN resp'.status = 404 /\ resp'.error = "Game not found"
            ELSE resp'.status = 400]_vars

C10_Witness ==
  /\ resp.op = "results" /\ resp.status = 404
  /\ lastId = 2 /\ DOMAIN games = {2}
  /\ DOMAIN player_stats # {}

\* C6: no two stored games have the same seating_hash, and every stored hash is
\* the hash of the seating stored with it, also while generate requests interleave
C6_FingerprintsUnique ==
  /\ \A i, j \in DOMAIN games :
       i # j => games[i].seating_hash # games[j].seating_hash
  /\ \A i \in DOMAIN games :
       games[i].seating_hash = hashSeating(SeatingOf(games[i]))

\* two requests drew the same seating, one insert was refused by the index
C6_Witness ==
  /\ resp.error = UnhandledRejection
  /\ \E i \in DOMAIN games : SeatingOf(games[i]) = <<"B", "A">>

\* C11: recalculating twice in a row, the games unchanged in between, leaves
\* the rows and fields of player_stats that recalculating once leaves
C11_RecomputeIdempotent ==
  LET once == recalculateStats(player_stats, games)
  IN recalculateStats(once, games) = once

\* a recalculation has just run on a store that holds a settled game
C11_Witness ==
  /\ resp.op = "delete"
  /\ \E id \in DOMAIN games : games[id].winner # None
  /\ \E p \in DOMAIN player_stats : player_stats[p].wins > 0

\* C12: while games are generated and their results recorded once each, every
\* player's games_played, wins and top3 kept by the incremental updates are the
\* values a recalculation derives from the stored games
C12_IncrementalEqualsRecompute ==
  LET derived == recalculateStats(player_stats, games)
  IN /\ DOMAIN player_stats = DOMAIN derived
     /\ \A p \in DOMAIN player_stats :
          /\ player_stats[p].games_played = derived[p].games_played
          /\ player_stats[p].wins = derived[p].wins
          /\ player_stats[p].top3 = derived[p].top3

\* C13: the pot of describePayouts is playerCount * buyIn; a pot of 0 pays 0 to
\* first, second and third; any other pot goes to first, second and third get 0;
\* 4 seats at 100 give first 400, second 0, third 0, totalPot 400
C13_WinnerTakesAll ==
  resp.op = "describePayouts" =>
    LET totalPot == resp.playerCount * resp.buyIn
    IN /\ IF totalPot = 0
          THEN resp.payouts = [first |-> 0, second |-> 0, third |-> 0]
          ELSE resp.payouts =
                 [first |-> totalPot, second |-> 0, third |-> 0, totalPot |-> totalPot]
       /\ (resp.playerCount = 4 /\ resp.buyIn = 100) =>
             resp.payouts = [first |-> 400, second |-> 0, third |-> 0, totalPot |-> 400]

C13_Witness ==
  /\ resp.op = "describePayouts"
  /\ resp.playerCount = 4 /\ resp.buyIn = 100
  /\ resp.payouts.first = 400

\* C14: from the empty store, generate for A, B, C with buy-in 50 and then
\* results with first B leave B with games_played 1, wins 1, total_buyins 50;
\* the admin delete of that game leaves A, B and C with nothing counted: no
\* games, wins, top3, buy-ins, winnings or profit
C14_EndToEnd ==
  /\ (/\ lastId = 1 /\ DOMAIN games = {1}
      /\ games[1].winner = "B" /\ games[1].buy_in = 50
      /\ {SeatingOf(games[1])[k] : k \in 1..3} = {"A", "B", "C"})
     => /\ "B" \in DOMAIN player_stats
        /\ player_stats["B"].games_played = 1
        /\ player_stats["B"].wins = 1
        /\ player_stats["B"].total_buyins = 50
  /\ (lastId = 1 /\ DOMAIN games = {})
     => \A p \in {"A", "B", "C"} :
          p \in DOMAIN player_stats =>
            player_stats[p] = [games_played |-> 0, wins |-> 0, top3 |-> 0,
                               total_buyins |-> 0, total_winnings |-> 0,
                               net_profit |-> 0]

C14_Witness ==
  /\ lastId = 1 /\ DOMAIN games = {1}
  /\ ResultsSucceeded(resp)
  /\ games[1].winner = "B" /\ games[1].buy_in = 50
  /\ player_stats["B"].wins = 1

\* C15: a generate call whose roster does not name at least 2 different players
\* (no roster, none, one, or one name repeated) answers 400 and creates no game
C15_RosterNeedsTwoDistinct ==
  [][resp'.op = "generate" =>
     \A body \in InputGenerateBodies :
       LET names == IF body.players.isArray
                    THEN {body.players.items[k] : k \in 1..Len(body.players.items)}
                    ELSE {}
       IN  (Cardinality(names) < 2 /\ Generate(body)) =>
             /\ resp'.status = 400
             /\ games' = games /\ lastId' = lastId]_vars

\* C16: a generate call that succeeds inserts exactly one game, leaves the stored
\* games as they are, and counts one more game and one more buy-in for each
\* seated player and nothing else; a generate call that fails (400, 409 active
\* game, 409 after 50 colliding attempts) leaves games and player_stats unchanged
C16_GenerateWrites ==
  [][resp'.op = "generate" =>
     IF resp'.status = 200
     THEN LET id == resp'.gameId
              seating == resp'.seating
              Old(p, field) == IF p \in DOMAIN player_stats THEN player_stats[p][field] ELSE 0
          IN /\ id \notin DOMAIN games
             /\ DOMAIN games' = DOMAIN games \cup {id}
             /\ \A k \in DOMAIN games : games'[k] = games[k]
             /\ DOMAIN player_stats' =
                  DOMAIN player_stats \cup {seating[k] : k \in 1..Len(seating)}
             /\ \A p \in DOMAIN player_stats' :
                  IF Includes(seating, p)
                  THEN /\ player_stats'[p].games_played = Old(p, "games_played") + 1
                       /\ player_stats'[p].total_buyins =
                            Old(p, "total_buyins") + games'[id].buy_in
                       /\ player_stats'[p].net_profit =
                            Old(p, "net_profit") - games'[id].buy_in
                       /\ player_stats'[p].wins = Old(p, "wins")
                       /\ player_stats'[p].top3 = Old(p, "top3")
                       /\ player_stats'[p].total_winnings = Old(p, "total_winnings")
                  ELSE player_stats'[p] = player_stats[p]
     ELSE games' = games /\ player_stats' = player_stats /\ lastId' = lastId]_vars

\* a second game was generated for players who already have a row
C16_Witness ==
  /\ GenerateSucceeded(resp)
  /\ resp.gameId = 2
  /\ \E p \in DOMAIN player_stats : player_stats[p].games_played = 2

\* C17: the retry loop makes at most 50 attempts and ends. A turn of the loop
\* either draws a stored seating and goes round, or draws one that is not
\* stored and succeeds with it; the loop answers 409 "after 50 attempts" only
\* once 50 attempts have collided
C17_LoopTerminates ==
  /\ [](reqs.attempts <= MaxAttempts)
  /\ [][(reqs.pc = "loop" /\ reqs' # reqs) =>
          \/ /\ reqs'.pc = "loop"
             /\ reqs'.attempts = reqs.attempts + 1
             /\ HashExists(games, hashSeating(reqs'.seating))
             /\ games' = games
          \/ /\ reqs'.pc = "idle"
             /\ GenerateSucceeded(resp')
             /\ reqs.attempts < MaxAttempts
             /\ ~HashExists(games, hashSeating(resp'.seating))
          \/ /\ reqs'.pc = "idle"
             /\ resp' = Response("generate", 409, ExhaustedMessage)
             /\ reqs.attempts = MaxAttempts
             /\ games' = games]_vars
  /\ (reqs.pc = "loop" ~> reqs.pc = "idle")

\* 50 attempts collided and the request was answered 409
C17_Witness ==
  /\ resp = Response("generate", 409, ExhaustedMessage)
  /\ reqs.pc = "idle"
  /\ Cardinality(DOMAIN games) = 2

\* C18: GET /api/active-game returns a game exactly when some stored game has no
\* winner; the game it returns has no winner, and its id, seating and buy-in are
\* those of the stored game, the seating being one a generate call returned;
\* with no active game it returns null
C18_ActiveGame ==
  resp.op = "active-game" =>
    /\ resp.found <=> (\E id \in DOMAIN games : games[id].winner = None)
    /\ resp.found =>
         /\ resp.gameId \in DOMAIN games
         /\ games[resp.gameId].winner = None
         /\ resp.seating = SeatingOf(games[resp.gameId])
         /\ resp.seating \in issued
         /\ resp.buyIn = games[resp.gameId].buy_in
    /\ ~resp.found => resp = ActiveGameNull

\* the active game is returned while a settled game is stored as well
C18_Witness ==
  /\ resp.op = "active-game"
  /\ resp.found
  /\ \E id \in DOMAIN games : games[id].winner # None

\* C19: right after a successful admin DELETE or PATCH every field of every
\* player_stats row has the value recalculateStats derives from the stored games
C19_AdminEndsRecalculated ==
  (resp.op \in {"delete", "patch"} /\ resp.status = 200) =>
    player_stats = recalculateStats(player_stats, games)

\* C20: a stored game keeps its id, seating, fingerprint and buy-in in every
\* step; a results call and an admin PATCH add and remove no game, leave every
\* game but the addressed one as it is, and change the addressed one in its
\* three placement fields only
C20_GameImmutable ==
  [][/\ \A id \in DOMAIN games \cap DOMAIN games' :
          /\ games'[id].players = games[id].players
          /\ games'[id].seating_hash = games[id].seating_hash
          /\ games'[id].buy_in = games[id].buy_in
     /\ (resp'.op = "results" /\ games' # games) =>
          \A body \in ResultsBodies :
            Results(body) =>
              /\ DOMAIN games' = DOMAIN games
              /\ \A id \in DOMAIN games \ {body.gameId} : games'[id] = games[id]
     /\ (resp'.op = "patch" /\ games' # games) =>
          \A addressed \in 1..MaxGames, body \in PatchBodies :
            AdminPatch(addressed, body) =>
              /\ DOMAIN games' = DOMAIN games
              /\ \A id \in DOMAIN games \ {addressed} : games'[id] = games[id]]_vars

\* a PATCH changed the winner of one of two stored games
C20_Witness ==
  /\ resp.op = "patch" /\ resp.status = 200
  /\ Cardinality(DOMAIN games) = 2
  /\ \E id \in DOMAIN games : games[id].winner = None
  /\ \E id \in DOMAIN games : games[id].winner = "A" /\ games[id].second_place = "B"

\* C21: in every reachable state every placement of a stored game that is set
\* (winner, second_place, third_place) names a player of that game's seating
C21_PlacementsInSeating ==
  \A id \in DOMAIN games :
    LET players == SeatingOf(games[id])
    IN /\ games[id].winner # None => Includes(players, games[id].winner)
       /\ games[id].second_place # None => Includes(players, games[id].second_place)
       /\ games[id].third_place # None => Includes(players, games[id].third_place)

\* a PATCH naming a player who is not in the game was refused, the game keeping
\* the placements recorded before
C21_Witness ==
  /\ resp.op = "patch" /\ resp.status = 400
  /\ \E id \in DOMAIN games : games[id].winner # None /\ games[id].second_place # None

\* C22: a new game gets an id greater than the id of every game created before
\* it, deleted or not: the ids handed out so far never exceed the sequence, the
\* sequence never goes down, and a step that creates a game gives it an id
\* above the sequence and above every stored id
C22_IdsIncrease ==
  /\ [](\A id \in DOMAIN games : id <= lastId)
  /\ [][/\ lastId' >= lastId
        /\ \A id \in DOMAIN games' \ DOMAIN games :
             /\ id > lastId
             /\ id <= lastId'
             /\ \A k \in DOMAIN games : id > k]_vars

\* game 2 was created after game 1 had been deleted
C22_Witness ==
  /\ GenerateSucceeded(resp)
  /\ resp.gameId = 2
  /\ DOMAIN games = {2}

\* C23: every stored game has a buy-in of 0 or more, whatever buy-in the
\* generate request carried (none, no number, zero, positive, negative)
C23_BuyInNonNegative == \A id \in DOMAIN games : games[id].buy_in >= 0

C25_HashIffSameSeating ==
  resp.op = "hashSeating" =>
    \A other \in HashedSeatings :
      (hashSeatingChars(other) = resp.hash) <=> (other = resp.seating)

\* the seating hashed has one name, quote comma quote; written without escapes
\* it would read as two empty names
C25_Witness ==
  /\ resp.op = "hashSeating"
  /\ resp.seating = <<(<<"\"", ",", "\"">>)>>

\* C26: a generate call in which a statement of the statistics update fails
\* after the game was inserted does not answer with success
C26_StatsFailureReported ==
  [][resp'.op = "generate" =>
       \A body \in FaultGenerateBodies :
         GenerateStatsError(body) => ~GenerateSucceeded(resp')]_vars

C28_OneRequestCreates ==
  [][\A i \in Slots :
       (reqs[i].pc = "insert" /\ reqs'[i].pc = "stats") =>
         /\ ActiveIds(games) = {}
         /\ Cardinality(ActiveIds(games')) = 1]_vars

\* C29: once an admin delete with its recalculation and a generate request
\* sent while it ran have both finished, the rows of player_stats are those of
\* the players of the stored games, and games_played and total_buyins of every
\* row are the values recalculateStats derives from the stored games
C29_RecalcNotInterleaved ==
  (\A i \in DOMAIN reqs : reqs[i].pc = "idle") =>
    LET derived == recalculateStats(player_stats, games)
    IN /\ DOMAIN player_stats = DOMAIN derived
       /\ \A p \in DOMAIN derived :
            /\ player_stats[p].games_played = derived[p].games_played
            /\ player_stats[p].total_buyins = derived[p].total_buyins

\* C30: after a successful generate with buy-in b every player of the new
\* seating has games_played one higher, total_buyins b higher and net_profit b
\* lower than before, wins, top3 and total_winnings as before; a player without
\* a row before has the row 1, 0, 0, b, 0, -b; every other row is unchanged
C30_GameCreatedDelta ==
  [][GenerateSucceeded(resp') =>
       LET seating == resp'.seating
           b == games'[resp'.gameId].buy_in
           seated == {seating[k] : k \in 1..Len(seating)}
       IN /\ DOMAIN player_stats' = DOMAIN player_stats \cup seated
          /\ \A p \in DOMAIN player_stats \ seated : player_stats'[p] = player_stats[p]
          /\ \A p \in seated \cap DOMAIN player_stats :
               player_stats'[p] =
                 [player_stats[p] EXCEPT !.games_played = @ + 1,
                                         !.total_buyins = @ + b,
                                         !.net_profit = @ - b]
          /\ \A p \in seated \ DOMAIN player_stats :
               player_stats'[p] =
                 [games_played |-> 1, wins |-> 0, top3 |-> 0, total_buyins |-> b,
                  total_winnings |-> 0, net_profit |-> 0 - b]]_vars

\* C31: a successful results call stores first, second and third as winner,
\* second_place and third_place of its game (unset for a second or third left
\* out) and leaves every other game as it is; wins of first goes up by 1, top3
\* of a player goes up by 1 for each of first, second and third that names the
\* player, and games_played, total_buyins, total_winnings and net_profit of
\* every player stay as they are
C31_ResultsDelta ==
  [][ResultsSucceeded(resp') =>
       \A body \in PlacedResultsBodies :
         Results(body) =>
           /\ games' = [games EXCEPT ![body.gameId].winner = body.first,
                                      ![body.gameId].second_place = body.second,
                                      ![body.gameId].third_place = body.third]
           /\ DOMAIN player_stats' = DOMAIN player_stats
           /\ \A p \in DOMAIN player_stats :
                LET One(x) == IF x = p THEN 1 ELSE 0
                IN player_stats'[p] =
                     [player_stats[p] EXCEPT
                        !.wins = @ + One(body.first),
                        !.top3 = @ + One(body.first) + One(body.second) + One(body.third)]]_vars

\* results with a first and a third and no second were recorded
C31_Witness ==
  /\ ResultsSucceeded(resp)
  /\ \E id \in DOMAIN games :
       /\ games[id].winner = "A"
       /\ games[id].second_place = None
       /\ games[id].third_place = "C"
  /\ player_stats["C"].top3 = 1

\* C32 as stated: a results call on a game that has a winner already, with a
\* first who is in the game, is accepted, overwrites the placements and adds 1
\* to wins and top3 of first again, and after it the wins of that first are
\* more than the games stored with that player as winner
C32_RepeatWinnerExceeds ==
  [][resp'.op = "results" =>
       \A id \in DOMAIN games :
         games[id].winner # None =>
           LET players == SeatingOf(games[id])
           IN \A body \in StatsResultsBodies :
                (body.gameId = id /\ Includes(players, body.first) /\ Results(body)) =>
                  /\ resp'.status = 200
                  /\ games'[id].winner = body.first
                  /\ player_stats'[body.first].wins = player_stats[body.first].wins + 1
                  /\ player_stats'[body.first].wins >
                       Cardinality({k \in DOMAIN games' : games'[k].winner = body.first})]_vars

\* C32 amended: such a call is accepted, overwrites the placements and adds 1
\* to wins and top3 of first again; after it the wins of all players together
\* are more than the games stored with a winner, and the wins of first are more
\* than the games stored with that player as winner when the game had the same
\* winner before
C32_RepeatCountsAgain ==
  [][resp'.op = "results" =>
       \A id \in DOMAIN games :
         games[id].winner # None =>
           LET players == SeatingOf(games[id])
           IN \A body \in StatsResultsBodies :
                (body.gameId = id /\ Includes(players, body.first) /\ Results(body)) =>
                  /\ resp'.status = 200
                  /\ games'[id].winner = body.first
                  /\ games'[id].second_place = body.second
                  /\ games'[id].third_place = body.third
                  /\ player_stats'[body.first].wins = player_stats[body.first].wins + 1
                  /\ player_stats'[body.first].top3 = player_stats[body.first].top3 + 1
                  /\ SumWins(player_stats', DOMAIN player_stats') >
                       Cardinality({k \in DOMAIN games' : games'[k].winner # None})
                  /\ games[id].winner = body.first =>
                       player_stats'[body.first].wins >
                         Cardinality({k \in DOMAIN games' : games'[k].winner = body.first})]_vars

\* results were recorded a second time for the one stored game, with another
\* winner: B has 1 win and 1 game won, A has 1 win and no game won
C32_Witness ==
  /\ ResultsSucceeded(resp)
  /\ DOMAIN games = {1}
  /\ games[1].winner = "B"
  /\ {"A", "B"} \subseteq DOMAIN player_stats
  /\ player_stats["A"].wins = 1
  /\ player_stats["B"].wins = 1

Recalculated ==
  \/ resp'.op = "delete"
  \/ /\ resp'.op = "patch"
     /\ resp'.status = 200
     /\ \E id \in GameIdInputs, body \in PatchBodies :
          /\ {body.winner, body.second_place, body.third_place} # {Undefined}
          /\ AdminPatch(id, body)

\* C34: after a recalculation total_winnings of every player is the sum of
\* seats times buy_in over the stored games with a positive buy_in that the
\* player won, second and third places add nothing, and the total_winnings of
\* all players together are the pots of the settled games with a positive buy_in
C34_WinnerTakesPots ==
  [][Recalculated =>
       LET paid == {id \in DOMAIN games' : games'[id].buy_in > 0 /\ games'[id].winner # None}
           Pot(id) == Len(SeatingOf(games'[id])) * games'[id].buy_in
           RECURSIVE Pots(_)
           Pots(ids) == IF ids = {} THEN 0
                        ELSE LET id == CHOOSE i \in ids : TRUE
                             IN Pot(id) + Pots(ids \ {id})
           RECURSIVE Winnings(_)
           Winnings(ps) == IF ps = {} THEN 0
                           ELSE LET p == CHOOSE q \in ps : TRUE
                                IN player_stats'[p].total_winnings + Winnings(ps \ {p})
       IN /\ \A p \in DOMAIN player_stats' :
               player_stats'[p].total_winnings =
                 Pots({id \in paid : games'[id].winner = p})
          /\ Winnings(DOMAIN player_stats') = Pots(paid)]_vars

\* a PATCH stored second and third place of the game that A won, and the
\* recalculation gave the whole pot to A
C34_Witness ==
  /\ resp.op = "patch" /\ resp.status = 200
  /\ \E id \in DOMAIN games :
       /\ games[id].winner = "A"
       /\ games[id].second_place = "B"
  /\ {"A", "B"} \subseteq DOMAIN player_stats
  /\ player_stats["A"].total_winnings = 100
  /\ player_stats["B"].total_winnings = 0
  /\ player_stats["B"].top3 = 1

\* C35: after a recalculation wins of every player is the number of stored
\* games that player won and top3 the number of stored games with a winner in
\* which the player holds a placement: a game without a winner, second and
\* third place still set, adds nothing to wins or top3
C35_OnlySettledGamesCount ==
  [][Recalculated =>
       \A p \in DOMAIN player_stats' :
         /\ player_stats'[p].wins =
              Cardinality({id \in DOMAIN games' : games'[id].winner = p})
         /\ player_stats'[p].top3 =
              Cardinality({id \in DOMAIN games' :
                             /\ games'[id].winner # None
                             /\ p \in {games'[id].winner, games'[id].second_place,
                                        games'[id].third_place}})]_vars

\* C36: the rows a recalculation leaves depend on the stored games only: it
\* leaves the same rows whatever rows were stored before, and a row for
\* exactly the players seated in some stored game
C36_RecalcFromGamesOnly ==
  [][Recalculated =>
       LET stale == [p \in {"A", "C"} |->
                       [games_played |-> 7, wins |-> 3, top3 |-> 5, total_buyins |-> 350,
                        total_winnings |-> 300, net_profit |-> 0 - 50]]
       IN /\ DOMAIN player_stats' =
               {p \in {"A", "B", "C"} :
                  \E id \in DOMAIN games' : Includes(SeatingOf(games'[id]), p)}
          /\ \A table \in {<<>>, stale, player_stats, player_stats'} :
               recalculateStats(table, games') = player_stats']_vars

\* the game of A and B was deleted and the game of B and C is left: the
\* recalculation dropped the row of A and kept rows for B and C
C36_Witness ==
  /\ resp.op = "delete"
  /\ DOMAIN games = {2}
  /\ SeatingOf(games[2]) \in {<<"B", "C">>, <<"C", "B">>}
  /\ DOMAIN player_stats = {"B", "C"}
  /\ player_stats["B"].games_played = 1

\* C37: in every state the players with a row are the players seated in a
\* stored game, games_played of a row is the number of seats the player holds
\* in the stored games and total_buyins the sum of the buy-ins of those seats
C37_SeatsAndBuyIns ==
  LET RECURSIVE SeatsIn(_, _)
      SeatsIn(players, p) ==
        IF players = <<>> THEN 0
        ELSE (IF Head(players) = p THEN 1 ELSE 0) + SeatsIn(Tail(players), p)
      RECURSIVE Seats(_, _)
      Seats(ids, p) ==
        IF ids = {} THEN 0
        ELSE LET id == CHOOSE i \in ids : TRUE
             IN SeatsIn(SeatingOf(games[id]), p) + Seats(ids \ {id}, p)
      RECURSIVE Paid(_, _)
      Paid(ids, p) ==
        IF ids = {} THEN 0
        ELSE LET id == CHOOSE i \in ids : TRUE
             IN SeatsIn(SeatingOf(games[id]), p) * games[id].buy_in + Paid(ids \ {id}, p)
  IN /\ \A p \in {"A", "B", "C"} :
          p \in DOMAIN player_stats <=> Seats(DOMAIN games, p) > 0
     /\ \A p \in DOMAIN player_stats :
          /\ player_stats[p].games_played = Seats(DOMAIN games, p)
          /\ player_stats[p].total_buyins = Paid(DOMAIN games, p)

\* two games were created, the first was settled and then deleted: A has one
\* seat left and one buy-in
C37_Witness ==
  /\ resp.op = "delete"
  /\ DOMAIN games = {2}
  /\ "A" \in DOMAIN player_stats
  /\ player_stats["A"].games_played = 1
  /\ player_stats["A"].total_buyins = 50

\* C38: in every state every row has 0 <= wins <= top3 <= games_played
C38_CountsOrdered ==
  \A p \in DOMAIN player_stats :
    /\ 0 <= player_stats[p].wins
    /\ player_stats[p].wins <= player_stats[p].top3
    /\ player_stats[p].top3 <= player_stats[p].games_played

\* C39: while a generate request is handled its roster stays as it was
\* received, whatever the attempts draw, and the seating of a successful
\* generate, returned and stored, has the length of the roster and every name
\* as often as the roster has it
C39_SeatingPermutesRoster ==
  [][reqs.pc # "idle" =>
       LET RECURSIVE Times(_, _)
           Times(arr, p) ==
             IF arr = <<>> THEN 0
             ELSE (IF Head(arr) = p THEN 1 ELSE 0) + Times(Tail(arr), p)
       IN /\ reqs'.pc # "idle" => reqs'.players = reqs.players
          /\ GenerateSucceeded(resp') =>
               /\ Len(resp'.seating) = Len(reqs.players)
               /\ \A p \in {"A", "B", "C"} :
                    Times(resp'.seating, p) = Times(reqs.players, p)
               /\ SeatingOf(games'[resp'.gameId]) = resp'.seating]_vars

\* the first generate stored its roster A, B as B, A; the roster A, B was
\* received again, an attempt drew the stored seating B, A and the loop went
\* round; the roster is still A, B
C39_Witness ==
  /\ 1 \in DOMAIN games
  /\ SeatingOf(games[1]) = <<"B", "A">>
  /\ reqs.pc = "loop"
  /\ reqs.attempts > 0
  /\ reqs.seating = <<"B", "A">>
  /\ reqs.players = <<"A", "B">>

\* C40: a PATCH for an id that is not stored answers 404, a PATCH naming a
\* winner, second or third place that is not in the seating of the game answers
\* 400, and both leave every game and every row as they were; any other PATCH
\* answers 200, stores the placements present in the request and leaves the
\* absent ones as they were
C40_PatchPresentFields ==
  [][resp'.op = "patch" =>
       \A id \in 1..MaxGames, body \in PatchBodies :
         AdminPatch(id, body) =>
           LET Named(x) == x \notin {None, Undefined}
               Patched(old, x) == IF x = Undefined THEN old ELSE x
           IN IF id \notin DOMAIN games
              THEN /\ resp'.status = 404
                   /\ games' = games /\ player_stats' = player_stats
              ELSE IF \E x \in {body.winner, body.second_place, body.third_place} :
                        Named(x) /\ ~Includes(SeatingOf(games[id]), x)
              THEN /\ resp'.status = 400
                   /\ games' = games /\ player_stats' = player_stats
              ELSE /\ resp'.status = 200
                   /\ games'[id].winner = Patched(games[id].winner, body.winner)
                   /\ games'[id].second_place =
                        Patched(games[id].second_place, body.second_place)
                   /\ games'[id].third_place =
                        Patched(games[id].third_place, body.third_place)]_vars

\* a PATCH with the winner alone cleared the winner of a game and left its
\* second place, B, as it was
C40_Witness ==
  /\ resp.op = "patch" /\ resp.status = 200
  /\ \E id \in DOMAIN games :
       /\ games[id].winner = None
       /\ games[id].second_place = "B"
       /\ games[id].third_place = None

====
